---------------------------- MODULE Spec2Model ----------------------------
(***************************************************************************)
(* A model of scripts/strip-chinese.py: the Cleaner (remove_chinese_line), *)
(* the markdown line processor, the code comment processor and main().     *)
(*                                                                         *)
(* A character is its Unicode code point and a string is a sequence of     *)
(* code points, so the script's character classes (U+4E00..U+9FFF,         *)
(* [a-zA-Z], \s) are the ranges and sets the regular expressions name.     *)
(***************************************************************************)
EXTENDS Integers, Sequences, FiniteSets, TLC

VARIABLES
    line,         \* Cleaner: the argument of remove_chinese_line
    cleaned,      \* Cleaner: remove_chinese_line(line)
    recleaned,    \* Cleaner: remove_chinese_line(cleaned)
    cpc,          \* Cleaner: "start" | "once" | "twice"
    md_text,      \* markdown: the text of the file as read
    lines,        \* markdown: f.readlines()
    new_lines,    \* markdown: the list after the classification loop
    final_lines,  \* markdown: the list after the blank-line loop
    mpc,          \* markdown: "start" | "done"
    content,      \* code: f.read()
    after_line,   \* code: content after the // pass
    after_block,  \* code: content after the /* */ pass (what is written)
    kpc,          \* code: "start" | "done"
    orig,         \* main: the files' contents before the run, in processing order
    disk,         \* main: the files' contents now
    idx,          \* main: the position of the file main() is at (1-based)
    reads,        \* main: the positions of the files opened for reading so far
    writes,       \* main: the positions of the files rewritten so far
    failed,       \* main: "none" | "read" | "write", the error that ended the run
    pc            \* main: "run" | "done" | "aborted"

cleanerVars == <<line, cleaned, recleaned, cpc>>
markdownVars == <<md_text, lines, new_lines, final_lines, mpc>>
codeVars == <<content, after_line, after_block, kpc>>
mainVars == <<orig, disk, idx, reads, writes, failed, pc>>
vars == <<cleanerVars, markdownVars, codeVars, mainVars>>

-----------------------------------------------------------------------------
(* Characters *)

\* The code points of the characters the model's inputs are written in.
Ch == [nl |-> 10, sp |-> 32, dq |-> 34, apos |-> 39, lpar |-> 40, rpar |-> 41,
       star |-> 42, hyphen |-> 45, slash |-> 47, one |-> 49, lbrk |-> 91,
       rbrk |-> 93, a |-> 97, han |-> 20013, fwcomma |-> 65292]

\* [U+4E00-U+9FFF]: 0x4E00 = 19968, 0x9FFF = 40959
IsChinese(c) == c >= 19968 /\ c <= 40959

\* [a-zA-Z]
IsLatin(c) == (c >= 65 /\ c <= 90) \/ (c >= 97 /\ c <= 122)

\* \s and str.strip(): the ASCII whitespace characters
Whitespace == {9, 10, 11, 12, 13, 28, 29, 30, 31, 32}

IsSpace(c) == c \in Whitespace

\* s[i..j] is all whitespace (true of the empty range)
AllSpace(s, i, j) == \A k \in i..j : IsSpace(s[k])

\* has_chinese(text)
has_chinese(text) == \E i \in 1..Len(text) : IsChinese(text[i])

\* re.search(r'[a-zA-Z]', line)
has_latin(text) == \E i \in 1..Len(text) : IsLatin(text[i])

\* str.strip()
strip(s) ==
    LET keep == {i \in 1..Len(s) : ~IsSpace(s[i])}
    IN  IF keep = {} THEN <<>>
        ELSE LET lo == CHOOSE i \in keep : \A j \in keep : i <= j
                 hi == CHOOSE i \in keep : \A j \in keep : i >= j
             IN  SubSeq(s, lo, hi)

\* s contains the two characters c1 c2 in a row
Contains2(s, c1, c2) == \E i \in 1..(Len(s) - 1) : s[i] = c1 /\ s[i + 1] = c2

-----------------------------------------------------------------------------
(* The Cleaner: remove_chinese_line *)

\* re.sub(r'[U+4E00-U+9FFF]+', '', line): every run of Chinese characters goes
RemoveChineseRuns(s) == SelectSeq(s, LAMBDA c : ~IsChinese(c))

\* The first literal of chinese_punct: fullwidth , . ; : ? ! ( ) and the
\* brackets, then two ASCII double quotes
PunctLiteral1 == <<65292, 12290, 65307, 65306, 65311, 65281, 65288, 65289,
                   12304, 12305, 12298, 12299, 34, 34>>

\* The second literal, adjacent to the first: the ideographic comma
PunctLiteral2 == <<12289>>

\* Mutant: the quotes of the first literal typographic (U+201C, U+201D), not ASCII
chinese_punct_m ==
    <<65292, 12290, 65307, 65306, 65311, 65281, 65288, 65289,
      12304, 12305, 12298, 12299, 8220, 8221>> \o PunctLiteral2

\* chinese_punct: two adjacent string literals, concatenated by the parser
chinese_punct == PunctLiteral1 \o PunctLiteral2

\* line.replace(punct, '')
replace_char(s, p) == SelectSeq(s, LAMBDA c : c # p)

RECURSIVE RemovePunct(_, _)
\* for punct in chinese_punct: line = line.replace(punct, '')
RemovePunct(s, k) ==
    IF k > Len(chinese_punct) THEN s
    ELSE RemovePunct(replace_char(s, chinese_punct[k]), k + 1)

\* r'\s+/\s*$' matches at i: whitespace from i, then the slash, then
\* whitespace to the end of the string
SlashTailAt(s, i) ==
    \E j \in (i + 1)..Len(s) :
        s[j] = Ch.slash /\ AllSpace(s, i, j - 1) /\ AllSpace(s, j + 1, Len(s))

\* re.sub(r'\s+/\s*$', '', line): the leftmost match runs to the end
StripTrailingSlash(s) ==
    LET at == {i \in 1..Len(s) : SlashTailAt(s, i)}
    IN  IF at = {} THEN s
        ELSE SubSeq(s, 1, (CHOOSE i \in at : \A j \in at : i <= j) - 1)

\* r'\s+-\s+$' matches at i: whitespace, the hyphen, whitespace (at least one)
\* to the end of the string
HyphenTailAt(s, i) ==
    \E j \in (i + 1)..(Len(s) - 1) :
        s[j] = Ch.hyphen /\ AllSpace(s, i, j - 1) /\ AllSpace(s, j + 1, Len(s))

\* re.sub(r'\s+-\s+$', '', line)
StripTrailingHyphen(s) ==
    LET at == {i \in 1..Len(s) : HyphenTailAt(s, i)}
    IN  IF at = {} THEN s
        ELSE SubSeq(s, 1, (CHOOSE i \in at : \A j \in at : i <= j) - 1)

\* The end of a match of open \s* close that starts at i, or 0
EmptyPairEnd(s, i, open, close) ==
    IF s[i] # open THEN 0
    ELSE LET ends == {j \in (i + 1)..Len(s) :
                        s[j] = close /\ AllSpace(s, i + 1, j - 1)}
         IN  IF ends = {} THEN 0 ELSE CHOOSE j \in ends : TRUE

RECURSIVE RemoveEmptyPairs(_, _, _, _)
\* re.sub(r'\(\s*\)', '', line): one scan from the left, the matches found in
\* the string as it was; the text a removal joins is not scanned again
RemoveEmptyPairs(s, i, open, close) ==
    IF i > Len(s) THEN <<>>
    ELSE LET e == EmptyPairEnd(s, i, open, close)
         IN  IF e > 0 THEN RemoveEmptyPairs(s, e + 1, open, close)
             ELSE <<s[i]>> \o RemoveEmptyPairs(s, i + 1, open, close)

\* Mutant: the punctuation loop left out
remove_chinese_line_m1(l) ==
    LET s1 == RemoveChineseRuns(l)
        s3 == StripTrailingSlash(s1)
        s4 == StripTrailingHyphen(s3)
        s5 == RemoveEmptyPairs(s4, 1, Ch.lpar, Ch.rpar)
        s6 == RemoveEmptyPairs(s5, 1, Ch.lbrk, Ch.rbrk)
    IN  strip(s6)

\* remove_chinese_line(line)
remove_chinese_line(l) ==
    LET s1 == RemoveChineseRuns(l)
        s2 == RemovePunct(s1, 1)
        s3 == StripTrailingSlash(s2)
        s4 == StripTrailingHyphen(s3)
        s5 == RemoveEmptyPairs(s4, 1, Ch.lpar, Ch.rpar)
        s6 == RemoveEmptyPairs(s5, 1, Ch.lbrk, Ch.rbrk)
    IN  strip(s6)

-----------------------------------------------------------------------------
(* Bounds and input alphabets *)

\* The longest line given to the Cleaner
MaxLineLen == 4

\* All strings over the characters S of length at most n
Strings(S, n) == UNION {[1..k -> S] : k \in 0..n}

\* The characters of the Cleaner's input lines
CleanerChars == {Ch.han, Ch.fwcomma, Ch.dq, Ch.apos, Ch.sp, Ch.nl, Ch.slash,
                 Ch.hyphen, Ch.lpar, Ch.rpar, Ch.lbrk, Ch.rbrk, Ch.a}

Idle == <<>>

cleanerIdle == line = Idle /\ cleaned = Idle /\ recleaned = Idle /\ cpc = "idle"
markdownIdle ==
    md_text = Idle /\ lines = Idle /\ new_lines = Idle /\ final_lines = Idle
    /\ mpc = "idle"
codeIdle == content = Idle /\ after_line = Idle /\ after_block = Idle /\ kpc = "idle"
mainIdle ==
    orig = Idle /\ disk = Idle /\ idx = 0 /\ reads = Idle /\ writes = Idle
    /\ failed = "none" /\ pc = "idle"

-----------------------------------------------------------------------------
(* The Cleaner applied to a line, and to its own output *)

CleanerInit ==
    /\ line \in Strings(CleanerChars, MaxLineLen)
    /\ cleaned = <<>> /\ recleaned = <<>> /\ cpc = "start"
    /\ markdownIdle /\ codeIdle /\ mainIdle

\* cleaned = remove_chinese_line(line)
Clean ==
    /\ cpc = "start"
    /\ cleaned' = remove_chinese_line(line)
    /\ cpc' = "once"
    /\ UNCHANGED <<line, recleaned, markdownVars, codeVars, mainVars>>

\* remove_chinese_line(cleaned)
CleanAgain ==
    /\ cpc = "once"
    /\ recleaned' = remove_chinese_line(cleaned)
    /\ cpc' = "twice"
    /\ UNCHANGED <<line, cleaned, markdownVars, codeVars, mainVars>>

CleanerNext == Clean \/ CleanAgain

SpecCleaner == CleanerInit /\ [][CleanerNext]_vars

Count(s, c) == Cardinality({i \in 1..Len(s) : s[i] = c})

\* The fullwidth and ideographic punctuation marks of the target script
TargetPunctuation == {65292, 12290, 65307, 65306, 65311, 65281, 65288, 65289,
                      12304, 12305, 12298, 12299, 12289}

\* C1: the Cleaner's output for a line with a Chinese character and a Latin
\* letter holds no Chinese character and no Chinese punctuation mark.
C1_NoChineseLeft ==
    (cpc # "start" /\ has_chinese(line) /\ has_latin(line)) =>
        /\ ~has_chinese(cleaned)
        /\ \A i \in 1..Len(cleaned) : cleaned[i] \notin TargetPunctuation

C1_Witness ==
    /\ cpc = "once" /\ has_chinese(line) /\ has_latin(line)
    /\ \E i \in 1..Len(line) : line[i] \in TargetPunctuation
    /\ cleaned # <<>>

\* C2: the Cleaner is idempotent: cleaning the cleaned line changes nothing.
C2_Idempotent == cpc = "twice" => recleaned = cleaned

-----------------------------------------------------------------------------
(* The markdown line processor: process_markdown_file *)

RECURSIVE readlines(_)
\* f.readlines(): the text cut after every line feed; the last line has none
\* when the text does not end in one
readlines(text) ==
    IF text = <<>> THEN <<>>
    ELSE LET feeds == {i \in 1..Len(text) : text[i] = Ch.nl}
         IN  IF feeds = {} THEN <<text>>
             ELSE LET e == CHOOSE i \in feeds : \A j \in feeds : i <= j
                  IN  <<SubSeq(text, 1, e)>> \o readlines(SubSeq(text, e + 1, Len(text)))

RECURSIVE writelines(_)
\* f.writelines(final_lines): the lines one after another, nothing added
writelines(ls) == IF ls = <<>> THEN <<>> ELSE Head(ls) \o writelines(Tail(ls))

\* str.isspace(): at least one character, all of them whitespace
isspace(s) == s # <<>> /\ AllSpace(s, 1, Len(s))

\* Mutant: no line counts as only Chinese (the test of line 51 left out)
only_chinese_m(l) == FALSE

\* has_chinese(line) and not re.search(r'[a-zA-Z]', line)
only_chinese(l) == has_chinese(l) /\ ~has_latin(l)

\* The body of the classification loop for one line: what it appends
classify_line(l) ==
    IF only_chinese(l) THEN <<>>
    ELSE IF has_chinese(l)
         THEN LET c == remove_chinese_line(l)
              IN  IF c # <<>> /\ ~isspace(c) THEN <<c \o <<Ch.nl>>>> ELSE <<>>
         ELSE <<l>>

RECURSIVE classify_loop(_, _, _, _)
\* for i, line in enumerate(lines): ...   (skip_next is never set)
classify_loop(ls, i, skip_next, acc) ==
    IF i > Len(ls) THEN acc
    ELSE IF skip_next THEN classify_loop(ls, i + 1, FALSE, acc)
         ELSE classify_loop(ls, i + 1, skip_next, acc \o classify_line(ls[i]))

\* is_empty = not line.strip()
is_empty(l) == strip(l) = <<>>

RECURSIVE collapse_loop_m(_, _, _, _)
\* Mutant: prev_empty cleared when a blank line is skipped
collapse_loop_m(ls, i, prev_empty, acc) ==
    IF i > Len(ls) THEN acc
    ELSE IF is_empty(ls[i]) /\ prev_empty
         THEN collapse_loop_m(ls, i + 1, FALSE, acc)
         ELSE collapse_loop_m(ls, i + 1, is_empty(ls[i]), Append(acc, ls[i]))

RECURSIVE collapse_loop(_, _, _, _)
\* for line in new_lines: ...   (prev_empty is left alone by continue)
collapse_loop(ls, i, prev_empty, acc) ==
    IF i > Len(ls) THEN acc
    ELSE IF is_empty(ls[i]) /\ prev_empty
         THEN collapse_loop(ls, i + 1, prev_empty, acc)
         ELSE collapse_loop(ls, i + 1, is_empty(ls[i]), Append(acc, ls[i]))

\* new_lines of process_markdown_file for the lines read
classify(ls) == classify_loop(ls, 1, FALSE, <<>>)

\* final_lines of process_markdown_file for new_lines
collapse(ls) == collapse_loop(ls, 1, FALSE, <<>>)

\* The text process_markdown_file writes for the text it read
process_markdown_text(text) == writelines(collapse(classify(readlines(text))))

\* The longest markdown file
MaxMdLen == 5

\* The characters of the markdown files
MdChars == {Ch.han, Ch.a, Ch.one, Ch.nl, Ch.sp}

MarkdownInit ==
    /\ md_text \in Strings(MdChars, MaxMdLen)
    /\ lines = <<>> /\ new_lines = <<>> /\ final_lines = <<>> /\ mpc = "start"
    /\ cleanerIdle /\ codeIdle /\ mainIdle

\* process_markdown_file(filepath), the file holding md_text
ProcessMarkdown ==
    /\ mpc = "start"
    /\ lines' = readlines(md_text)
    /\ new_lines' = classify(readlines(md_text))
    /\ final_lines' = collapse(classify(readlines(md_text)))
    /\ mpc' = "done"
    /\ UNCHANGED <<md_text, cleanerVars, codeVars, mainVars>>

MarkdownNext == ProcessMarkdown

SpecMarkdown == MarkdownInit /\ [][MarkdownNext]_vars

\* The positions of the blank (whitespace-only) lines of ls
BlankAt(ls) == {i \in 1..Len(ls) : AllSpace(ls[i], 1, Len(ls[i]))}

\* The positions where a maximal run of blank lines of ls starts
RunStarts(ls) == {i \in BlankAt(ls) : (i - 1) \notin BlankAt(ls)}

\* ls without the lines at the positions drop
RECURSIVE Without(_, _, _)
Without(ls, drop, i) ==
    IF i > Len(ls) THEN <<>>
    ELSE (IF i \in drop THEN <<>> ELSE <<ls[i]>>) \o Without(ls, drop, i + 1)

\* The positions of the lines with a Chinese character and no Latin letter
PureAt(ls) ==
    {i \in 1..Len(ls) :
        (\E k \in 1..Len(ls[i]) : IsChinese(ls[i][k]))
        /\ ~(\E k \in 1..Len(ls[i]) : IsLatin(ls[i][k]))}

\* The output with the line at i kept as it is, the other lines processed
KeepingLine(ls, i) ==
    collapse(classify(SubSeq(ls, 1, i - 1)) \o <<ls[i]>>
             \o classify(SubSeq(ls, i + 1, Len(ls))))

\* C6 as stated: every run of blank lines of the input gives exactly one blank
\* line of the output, and blank lines apart in the input stay apart: the
\* output has one blank line for each maximal run of blank lines of the input.
C6_RunsOfInput ==
    mpc = "done" => Cardinality(BlankAt(final_lines)) = Cardinality(RunStarts(lines))

\* C6 amended: the runs are those of the lines left after the pure-Chinese and
\* the emptied mixed lines are dropped: the output is that list with every
\* blank line that follows a blank line taken out, and no blank line of the
\* input is dropped before the collapse.
C6_RunsAfterDrop ==
    mpc = "done" =>
        /\ final_lines =
               Without(new_lines, BlankAt(new_lines) \ RunStarts(new_lines), 1)
        /\ Cardinality(BlankAt(new_lines)) = Cardinality(BlankAt(lines))
        /\ Cardinality(BlankAt(final_lines)) = Cardinality(RunStarts(new_lines))

C6_Witness ==
    /\ mpc = "done"
    /\ \E i \in RunStarts(lines) : (i + 1) \in BlankAt(lines)
    /\ Cardinality(RunStarts(new_lines)) < Cardinality(RunStarts(lines))
    /\ Cardinality(BlankAt(final_lines)) = 1

\* C7 as stated: a line with a Chinese character and no Latin letter is
\* dropped: the output has exactly one line fewer than with the line kept, and
\* the line is not in it, whatever its neighbours.
C7_OneLineFewer ==
    mpc = "done" =>
        \A i \in PureAt(lines) :
            /\ Len(final_lines) = Len(KeepingLine(lines, i)) - 1
            /\ \A k \in 1..Len(final_lines) : final_lines[k] # lines[i]

\* C7 amended: the line is dropped: the output is the output for the input
\* without it, and the list before the blank-line collapse has exactly one
\* line fewer than with the line kept; the output has one line fewer than
\* with the line kept, or two fewer when the line stood between two blank
\* lines of that list.
C7_Dropped ==
    mpc = "done" =>
        \A i \in PureAt(lines) :
            LET before == classify(SubSeq(lines, 1, i - 1))
                after == classify(SubSeq(lines, i + 1, Len(lines)))
                joins == /\ before # <<>> /\ after # <<>>
                         /\ Len(before) \in BlankAt(before)
                         /\ 1 \in BlankAt(after)
            IN  /\ new_lines = before \o after
                /\ final_lines = collapse(classify(Without(lines, {i}, 1)))
                /\ Len(final_lines) =
                       Len(KeepingLine(lines, i)) - (IF joins THEN 2 ELSE 1)
                /\ \A k \in 1..Len(final_lines) : final_lines[k] # lines[i]

C7_Witness ==
    /\ mpc = "done"
    /\ \E i \in PureAt(lines) :
          /\ i > 1 /\ i < Len(lines)
          /\ Len(final_lines) = Len(KeepingLine(lines, i)) - 2

RECURSIVE IsSubsequence(_, _)
\* s is t with characters deleted
IsSubsequence(s, t) ==
    IF s = <<>> THEN TRUE
    ELSE IF t = <<>> THEN FALSE
    ELSE IF Head(s) = Head(t) THEN IsSubsequence(Tail(s), Tail(t))
    ELSE IsSubsequence(s, Tail(t))

\* C8: the output comes from the input by deleting lines and characters and
\* collapsing blank lines only: no character is inserted and what survives
\* keeps its order, so the text written is the text read with characters
\* deleted.
C8_DeletionOnly == mpc = "done" => IsSubsequence(writelines(final_lines), md_text)

-----------------------------------------------------------------------------
(* The code comment processor: process_code_file *)

\* The last position of the physical line that position i is on (the line
\* feed not counted): where '.*$' ends, '.' matching all but the line feed
LineEnd(s, i) ==
    LET feeds == {j \in i..Len(s) : s[j] = Ch.nl}
    IN  IF feeds = {} THEN Len(s)
        ELSE (CHOOSE j \in feeds : \A k \in feeds : j <= k) - 1

\* Mutant: the marker put before the cleaned text of the comment's remainder
replace_comment_m(comment) ==
    IF has_chinese(comment)
    THEN <<Ch.slash, Ch.slash>> \o remove_chinese_line(SubSeq(comment, 3, Len(comment)))
    ELSE comment

\* replace_comment(match): cleaned is the Cleaner's output for the whole match
replace_comment(comment) ==
    IF has_chinese(comment)
    THEN LET c == remove_chinese_line(comment)
         IN  IF c # <<>> THEN <<Ch.slash, Ch.slash>> \o c ELSE <<Ch.slash, Ch.slash>>
    ELSE comment

RECURSIVE line_comment_pass(_, _)
\* re.sub(r'//.*$', replace_comment, content, flags=re.MULTILINE)
line_comment_pass(s, i) ==
    IF i > Len(s) THEN <<>>
    ELSE IF i < Len(s) /\ s[i] = Ch.slash /\ s[i + 1] = Ch.slash
         THEN replace_comment(SubSeq(s, i, LineEnd(s, i)))
                  \o line_comment_pass(s, LineEnd(s, i) + 1)
         ELSE <<s[i]>> \o line_comment_pass(s, i + 1)

RECURSIVE split_lines(_)
\* comment.split('\n')
split_lines(s) ==
    LET feeds == {i \in 1..Len(s) : s[i] = Ch.nl}
    IN  IF feeds = {} THEN <<s>>
        ELSE LET e == CHOOSE i \in feeds : \A j \in feeds : i <= j
             IN  <<SubSeq(s, 1, e - 1)>> \o split_lines(SubSeq(s, e + 1, Len(s)))

RECURSIVE join_lines(_)
\* '\n'.join(new_lines)
join_lines(ls) ==
    IF ls = <<>> THEN <<>>
    ELSE IF Len(ls) = 1 THEN ls[1]
    ELSE ls[1] \o <<Ch.nl>> \o join_lines(Tail(ls))

\* line.strip().startswith('*')
starts_with_star(l) == strip(l) # <<>> /\ strip(l)[1] = Ch.star

\* The body of the loop of replace_multiline_comment for one line: what it
\* appends to new_lines
block_line(l) ==
    IF Contains2(l, Ch.slash, Ch.star) \/ Contains2(l, Ch.star, Ch.slash) THEN <<l>>
    ELSE IF has_chinese(l)
         THEN LET c == remove_chinese_line(l)
              IN  IF c # <<>>
                  THEN (IF starts_with_star(l) THEN <<<<Ch.sp>> \o c>> ELSE <<c>>)
                  ELSE <<>>
         ELSE <<l>>

RECURSIVE block_lines(_)
\* for line in lines: ...
block_lines(ls) ==
    IF ls = <<>> THEN <<>> ELSE block_line(Head(ls)) \o block_lines(Tail(ls))

\* replace_multiline_comment(match)
replace_multiline_comment(comment) ==
    IF has_chinese(comment) THEN join_lines(block_lines(split_lines(comment)))
    ELSE comment

\* The last position of the match of r'/\*.*?\*/' (DOTALL) that starts at i,
\* or 0: the nearest '*/' that begins after the '/*'
BlockEnd(s, i) ==
    IF ~(i < Len(s) /\ s[i] = Ch.slash /\ s[i + 1] = Ch.star) THEN 0
    ELSE LET closes == {j \in (i + 2)..(Len(s) - 1) :
                          s[j] = Ch.star /\ s[j + 1] = Ch.slash}
         IN  IF closes = {} THEN 0
             ELSE (CHOOSE j \in closes : \A k \in closes : j <= k) + 1

RECURSIVE block_comment_pass(_, _)
\* re.sub(r'/\*.*?\*/', replace_multiline_comment, content, flags=re.DOTALL)
block_comment_pass(s, i) ==
    IF i > Len(s) THEN <<>>
    ELSE IF BlockEnd(s, i) > 0
         THEN replace_multiline_comment(SubSeq(s, i, BlockEnd(s, i)))
                  \o block_comment_pass(s, BlockEnd(s, i) + 1)
         ELSE <<s[i]>> \o block_comment_pass(s, i + 1)

\* The text process_code_file writes for the text it read
process_code_text(text) == block_comment_pass(line_comment_pass(text, 1), 1)

\* The longest code file
MaxCodeLen == 9

\* The characters of the code files
CodeChars == {Ch.slash, Ch.star, Ch.han, Ch.nl}

CodeInit ==
    /\ content \in Strings(CodeChars, MaxCodeLen)
    /\ after_line = <<>> /\ after_block = <<>> /\ kpc = "start"
    /\ cleanerIdle /\ markdownIdle /\ mainIdle

\* process_code_file(filepath), the file holding content
ProcessCode ==
    /\ kpc = "start"
    /\ after_line' = line_comment_pass(content, 1)
    /\ after_block' = block_comment_pass(line_comment_pass(content, 1), 1)
    /\ kpc' = "done"
    /\ UNCHANGED <<content, cleanerVars, markdownVars, mainVars>>

CodeNext == ProcessCode

SpecCode == CodeInit /\ [][CodeNext]_vars

RECURSIVE LineCommentSpans(_, _)
\* The matches <<first, last>> of '//' to the end of the line in s, from i on
LineCommentSpans(s, i) ==
    IF i > Len(s) THEN {}
    ELSE IF i < Len(s) /\ s[i] = Ch.slash /\ s[i + 1] = Ch.slash
         THEN {<<i, LineEnd(s, i)>>} \cup LineCommentSpans(s, LineEnd(s, i) + 1)
         ELSE LineCommentSpans(s, i + 1)

RECURSIVE BlockCommentSpans(_, _)
\* The matches <<first, last>> of '/*' to the nearest '*/' in s, from i on
BlockCommentSpans(s, i) ==
    IF i > Len(s) THEN {}
    ELSE IF BlockEnd(s, i) > 0
         THEN {<<i, BlockEnd(s, i)>>} \cup BlockCommentSpans(s, BlockEnd(s, i) + 1)
         ELSE BlockCommentSpans(s, i + 1)

\* What C3 says a line comment becomes: the marker, then the Cleaner's output
\* for the text after the marker
ClaimedComment(comment) ==
    IF \E k \in 1..Len(comment) : IsChinese(comment[k])
    THEN <<Ch.slash, Ch.slash>> \o remove_chinese_line(SubSeq(comment, 3, Len(comment)))
    ELSE comment

RECURSIVE ClaimedLinePass(_, _)
ClaimedLinePass(s, i) ==
    IF i > Len(s) THEN <<>>
    ELSE IF \E sp \in LineCommentSpans(s, 1) : sp[1] = i
         THEN ClaimedComment(SubSeq(s, i, LineEnd(s, i)))
                  \o ClaimedLinePass(s, LineEnd(s, i) + 1)
         ELSE <<s[i]>> \o ClaimedLinePass(s, i + 1)

\* C3: every line comment with a Chinese character becomes the marker '//'
\* followed by the Cleaner's output for the rest of the comment (the bare
\* marker when that is empty); the other comments are left as they are.
C3_MarkerThenCleanedRest == kpc = "done" => after_line = ClaimedLinePass(content, 1)

\* C4: every block comment with a Chinese character is rewritten to a span
\* without Chinese characters that keeps its '/*' and '*/'.
C4_BlockHasNoChinese ==
    kpc = "done" =>
        \A sp \in BlockCommentSpans(after_line, 1) :
            LET c == SubSeq(after_line, sp[1], sp[2])
                r == replace_multiline_comment(c)
            IN  (\E k \in 1..Len(c) : IsChinese(c[k])) =>
                    /\ \A k \in 1..Len(r) : ~IsChinese(r[k])
                    /\ Len(r) >= 4
                    /\ SubSeq(r, 1, 2) = <<Ch.slash, Ch.star>>
                    /\ SubSeq(r, Len(r) - 1, Len(r)) = <<Ch.star, Ch.slash>>

\* The positions of s inside a line comment or a block comment of s
InComment(s) ==
    {i \in 1..Len(s) :
        \E sp \in LineCommentSpans(s, 1) \cup BlockCommentSpans(s, 1) :
            sp[1] <= i /\ i <= sp[2]}

\* C5: every character of the input outside the comments is in the output,
\* unchanged and in the same order.
C5_CodeUntouched ==
    kpc = "done" =>
        IsSubsequence(Without(content, InComment(content), 1), after_block)

-----------------------------------------------------------------------------
(* main(): the markdown files, then the code files, one after another *)

\* The number of markdown files the globs of lines 127-128 find
NumMd == 2

\* The number of code files the globs of lines 136-137 find
NumTs == 2

NumFiles == NumMd + NumTs

\* The texts the markdown files start with
MdSamples ==
    { <<Ch.a, Ch.han, Ch.nl>>,
      <<Ch.nl, Ch.han, Ch.nl, Ch.nl>>,
      <<Ch.a, Ch.nl>> }

\* The texts the code files start with
CodeSamples ==
    { <<Ch.slash, Ch.slash, Ch.han, Ch.a>>,
      <<Ch.slash, Ch.star, Ch.nl, Ch.star, Ch.han, Ch.a, Ch.nl, Ch.star, Ch.slash>>,
      <<Ch.a, Ch.nl>> }

\* filepath.name of the file at position k: a stem and the suffix its glob asks for
FileName(k) == [stem |-> k, suffix |-> IF k <= NumMd THEN ".md" ELSE ".ts"]

\* filepath.name in ['.git', 'node_modules']: names that have no suffix
name_excluded(name) == name.suffix = "" /\ name.stem \in {".git", "node_modules"}

\* What the processor of the file at position k writes for the text it read
Processed(k, text) ==
    IF k <= NumMd THEN process_markdown_text(text) ELSE process_code_text(text)

Init ==
    /\ orig \in [1..NumFiles -> MdSamples \cup CodeSamples]
    /\ \A k \in 1..NumFiles : orig[k] \in (IF k <= NumMd THEN MdSamples ELSE CodeSamples)
    /\ disk = orig
    /\ idx = 1
    /\ reads = <<>> /\ writes = <<>>
    /\ failed = "none" /\ pc = "run"
    /\ cleanerIdle /\ markdownIdle /\ codeIdle

\* for filepath in md_files: if filepath.name not in [...]: process_markdown_file(filepath)
ProcessMarkdownFile ==
    /\ pc = "run" /\ idx <= NumMd
    /\ IF ~name_excluded(FileName(idx))
       THEN /\ reads' = Append(reads, idx)
            /\ disk' = [disk EXCEPT ![idx] = process_markdown_text(disk[idx])]
            /\ writes' = Append(writes, idx)
       ELSE UNCHANGED <<reads, disk, writes>>
    /\ idx' = idx + 1
    /\ UNCHANGED <<orig, failed, pc, cleanerVars, markdownVars, codeVars>>

\* for filepath in ts_files: process_code_file(filepath)
ProcessCodeFile ==
    /\ pc = "run" /\ idx > NumMd /\ idx <= NumFiles
    /\ reads' = Append(reads, idx)
    /\ disk' = [disk EXCEPT ![idx] = process_code_text(disk[idx])]
    /\ writes' = Append(writes, idx)
    /\ idx' = idx + 1
    /\ UNCHANGED <<orig, failed, pc, cleanerVars, markdownVars, codeVars>>

\* Mutant: the error of the read caught, the loop going on with the next file
ReadError_m ==
    /\ pc = "run" /\ idx <= NumFiles
    /\ reads' = Append(reads, idx)
    /\ idx' = idx + 1
    /\ UNCHANGED <<orig, disk, writes, failed, pc, cleanerVars, markdownVars, codeVars>>

\* open(filepath, 'r', encoding='utf-8') or the read raises (OSError,
\* UnicodeDecodeError); nothing catches it, the interpreter exits
ReadError ==
    /\ pc = "run" /\ idx <= NumFiles
    /\ reads' = Append(reads, idx)
    /\ failed' = "read" /\ pc' = "aborted"
    /\ UNCHANGED <<orig, disk, idx, writes, cleanerVars, markdownVars, codeVars>>

\* open(filepath, 'w', encoding='utf-8') raises after the read went well
WriteError ==
    /\ pc = "run" /\ idx <= NumFiles
    /\ reads' = Append(reads, idx)
    /\ failed' = "write" /\ pc' = "aborted"
    /\ UNCHANGED <<orig, disk, idx, writes, cleanerVars, markdownVars, codeVars>>

\* Both loops over: the summary is printed and main() returns
Finish ==
    /\ pc = "run" /\ idx = NumFiles + 1
    /\ pc' = "done"
    /\ UNCHANGED <<orig, disk, idx, reads, writes, failed, cleanerVars, markdownVars,
                   codeVars>>

Next == ProcessMarkdownFile \/ ProcessCodeFile \/ ReadError \/ WriteError \/ Finish

Spec == Init /\ [][Next]_vars

\* C9: the files are processed one after another, each read, transformed and
\* rewritten before the next starts; when the read of the k-th file fails the
\* run ends at once: every file before the k-th holds its processed text, the
\* k-th and the files after it hold what they held, and no file after the
\* k-th was read or written.
C9_SequentialNoRollback ==
    /\ pc \in {"run", "done", "aborted"}
    /\ writes = [j \in 1..(idx - 1) |-> j]
    /\ reads = IF pc = "aborted" THEN [j \in 1..idx |-> j] ELSE writes
    /\ \A j \in 1..NumFiles :
           disk[j] = IF j < idx THEN Processed(j, orig[j]) ELSE orig[j]
    /\ (pc = "aborted" /\ failed = "read") =>
           /\ idx <= NumFiles
           /\ ~ENABLED Next
           /\ \A j \in 1..NumFiles :
                  /\ j < idx => disk[j] = Processed(j, orig[j])
                  /\ j >= idx => disk[j] = orig[j]
                  /\ j > idx =>
                         /\ \A n \in 1..Len(reads) : reads[n] # j
                         /\ \A n \in 1..Len(writes) : writes[n] # j

C9_Witness ==
    /\ pc = "aborted" /\ failed = "read" /\ idx > 1 /\ idx < NumFiles
    /\ \E j \in 1..(idx - 1) : disk[j] # orig[j]
    /\ \E j \in (idx + 1)..NumFiles :
           Processed(j, orig[j]) # orig[j] /\ disk[j] = orig[j]

=============================================================================
